---- MODULE Spec2Model ----
(***************************************************************************)
(* cymrust: Team Cymru IP-to-ASN lookups over DNS TXT records.             *)
(*                                                                         *)
(* Text is modelled as a sequence of one-character strings, so that        *)
(* splitting, trimming, number parsing and formatting are computed the way *)
(* src/src/lib.rs computes them.  Three specifications share the module:   *)
(*   Spec        a call of cymru_ip2asn or cymru_asn against a DNS-TXT     *)
(*               collaborator that answers or fails nondeterministically;  *)
(*   SpecParse   parse_cymru_asn / parse_cymru_origin on batches of rows;  *)
(*   SpecEncode  the query names built for IPv4 and IPv6 addresses.        *)
(***************************************************************************)
EXTENDS Integers, Sequences, FiniteSets, TLC

VARIABLES
    op, arg, pc, now, queries, origins, idx, results, asn, ret,
    shape, gen, records, parsed,
    addr, name

mergeVars == <<op, arg, pc, now, queries, origins, idx, results, asn, ret>>
parseVars == <<shape, gen, records, parsed>>
encodeVars == <<addr, name>>
vars == <<mergeVars, parseVars, encodeVars>>

(***************************************************************************)
(* Text helpers (Rust's str and Vec<String> operations used by lib.rs)     *)
(***************************************************************************)

Digits == <<"0", "1", "2", "3", "4", "5", "6", "7", "8", "9">>

HexDigits == Digits \o <<"a", "b", "c", "d", "e", "f">>

IsDigit(c) == \E i \in 1..10 : Digits[i] = c

DigitVal(c) == (CHOOSE i \in 1..10 : Digits[i] = c) - 1

\* char::is_whitespace, as used by str::trim, on the characters of the model
IsWhite(c) == c \in {" ", "\t", "\n", "\r"}

RECURSIVE TrimStart(_)
TrimStart(s) ==
    IF s # <<>> /\ IsWhite(Head(s)) THEN TrimStart(Tail(s)) ELSE s

RECURSIVE TrimEnd(_)
TrimEnd(s) ==
    IF s # <<>> /\ IsWhite(s[Len(s)]) THEN TrimEnd(SubSeq(s, 1, Len(s) - 1)) ELSE s

\* str::trim
Trim(s) == TrimEnd(TrimStart(s))

\* str::split(char): the pieces between occurrences of sep; "" gives one empty piece
RECURSIVE Split(_, _)
Split(s, sep) ==
    IF \E i \in 1..Len(s) : s[i] = sep
    THEN LET i == CHOOSE k \in 1..Len(s) :
                      s[k] = sep /\ \A j \in 1..(k - 1) : s[j] # sep
         IN <<SubSeq(s, 1, i - 1)>> \o Split(SubSeq(s, i + 1, Len(s)), sep)
    ELSE <<s>>

\* .map(str::trim).collect()
MapTrim(ss) == [i \in 1..Len(ss) |-> Trim(ss[i])]

\* [String]::join(sep)
RECURSIVE Join(_, _)
Join(ss, sep) ==
    IF ss = <<>> THEN <<>>
    ELSE IF Len(ss) = 1 THEN ss[1]
    ELSE ss[1] \o sep \o Join(Tail(ss), sep)

\* Display of an unsigned integer: decimal, no padding
RECURSIVE DecStr(_)
DecStr(n) ==
    IF n < 10 THEN <<Digits[n + 1]>> ELSE DecStr(n \div 10) \o <<Digits[(n % 10) + 1]>>

\* u32::MAX = 4294967295 = U32MaxDiv10 * 10 + U32MaxMod10
U32MaxDiv10 == 429496729

U32MaxMod10 == 5

None == [some |-> FALSE]

Some(v) == [some |-> TRUE, val |-> v]

\* the digit loop of u32::from_str: checked_mul(10) then checked_add(digit)
RECURSIVE ParseDigits(_, _)
ParseDigits(s, acc) ==
    IF s = <<>> THEN Some(acc)
    ELSE IF ~IsDigit(Head(s)) THEN None
    ELSE IF acc > U32MaxDiv10 THEN None
    ELSE IF acc = U32MaxDiv10 /\ DigitVal(Head(s)) > U32MaxMod10 THEN None
    ELSE ParseDigits(Tail(s), acc * 10 + DigitVal(Head(s)))

\* str::parse::<AsNumber>(): an optional '+', then one or more decimal digits,
\* the value at most u32::MAX; anything else is Err
ParseU32(s) ==
    IF s = <<>> THEN None
    ELSE IF Head(s) = "+"
         THEN (IF Len(s) = 1 THEN None ELSE ParseDigits(Tail(s), 0))
         ELSE ParseDigits(s, 0)

(***************************************************************************)
(* Address encoder                                                         *)
(***************************************************************************)

OriginSuffix ==
    <<".", "o", "r", "i", "g", "i", "n",
      ".", "a", "s", "n", ".", "c", "y", "m", "r", "u", ".", "c", "o", "m", ".">>

Origin6Suffix ==
    <<".", "o", "r", "i", "g", "i", "n", "6",
      ".", "a", "s", "n", ".", "c", "y", "m", "r", "u", ".", "c", "o", "m", ".">>

AsnSuffix ==
    <<".", "a", "s", "n", ".", "c", "y", "m", "r", "u", ".", "c", "o", "m", ".">>

\* u8_to_str: char::from_digit(i, 16)
u8_to_str(i) == <<HexDigits[i + 1]>>

\* the mutation of ipv6_nibbles that pushes the high nibble before the low one
RECURSIVE NibblesHighFirst(_, _)
NibblesHighFirst(octets, k) ==
    IF k = 0 THEN <<>>
    ELSE <<u8_to_str(octets[k] \div 16), u8_to_str(octets[k] % 16)>>
             \o NibblesHighFirst(octets, k - 1)

ipv6_nibbles_mutant(octets) == Join(NibblesHighFirst(octets, Len(octets)), <<".">>)

\* the loop of ipv6_nibbles over ip.octets().iter().rev(), from octet k down
RECURSIVE NibblesFrom(_, _)
NibblesFrom(octets, k) ==
    IF k = 0 THEN <<>>
    ELSE <<u8_to_str(octets[k] % 16), u8_to_str(octets[k] \div 16)>>
             \o NibblesFrom(octets, k - 1)

ipv6_nibbles(octets) == Join(NibblesFrom(octets, Len(octets)), <<".">>)

\* the mutation of the IPv4 format that keeps the octets in address order
OriginQueryV4Mutant(o) ==
    DecStr(o[1]) \o <<".">> \o DecStr(o[2]) \o <<".">> \o DecStr(o[3]) \o <<".">>
        \o DecStr(o[4]) \o OriginSuffix

OriginQueryV4(o) ==
    DecStr(o[4]) \o <<".">> \o DecStr(o[3]) \o <<".">> \o DecStr(o[2]) \o <<".">>
        \o DecStr(o[1]) \o OriginSuffix

OriginQueryV6(o) == ipv6_nibbles(o) \o Origin6Suffix

\* the query name of cymru_origin; an address is [v |-> 4 or 6, octets |-> <<...>>]
OriginQuery(a) == IF a.v = 4 THEN OriginQueryV4(a.octets) ELSE OriginQueryV6(a.octets)

\* the query name of cymru_asn
AsnQuery(n) == <<"A", "S">> \o DecStr(n) \o AsnSuffix

(***************************************************************************)
(* Dates                                                                   *)
(***************************************************************************)

IsLeap(y) == (y % 4 = 0 /\ y % 100 # 0) \/ y % 400 = 0

DaysIn(y, m) ==
    IF m = 2 THEN (IF IsLeap(y) THEN 29 ELSE 28)
    ELSE IF m \in {4, 6, 9, 11} THEN 30 ELSE 31

AllDigits(s) == s # <<>> /\ \A i \in 1..Len(s) : IsDigit(s[i])

\* NaiveDate::parse_from_str(date, "%Y-%m-%d").ok(): three runs of digits, of at
\* most 4, 2 and 2 digits, separated by '-' and naming a day of the calendar.
\* (Signed years and blanks inside the text are not among the model's inputs.)
parse_date(date) ==
    LET p == Split(date, "-") IN
    IF Len(p) # 3 THEN None
    ELSE IF ~(AllDigits(p[1]) /\ AllDigits(p[2]) /\ AllDigits(p[3])) THEN None
    ELSE IF Len(p[1]) > 4 \/ Len(p[2]) > 2 \/ Len(p[3]) > 2 THEN None
    ELSE LET y == ParseDigits(p[1], 0).val
             m == ParseDigits(p[2], 0).val
             d == ParseDigits(p[3], 0).val
         IN IF m \in 1..12 /\ d >= 1 /\ d <= DaysIn(y, m)
            THEN Some([y |-> y, m |-> m, d |-> d])
            ELSE None

RECURSIVE ZeroPad(_, _)
ZeroPad(s, w) == IF Len(s) >= w THEN s ELSE ZeroPad(<<"0">> \o s, w)

\* NaiveDate's Display, used by origin.allocated.map(|s| s.to_string())
DateToString(dt) ==
    ZeroPad(DecStr(dt.y), 4) \o <<"-">> \o ZeroPad(DecStr(dt.m), 2) \o <<"-">>
        \o ZeroPad(DecStr(dt.d), 2)

(***************************************************************************)
(* Record parser.  A parse yields [panic, results]: indexing fields[i]     *)
(* past the end of the Vec panics, and the unwinding call yields nothing.  *)
(***************************************************************************)

Panicked == [panic |-> TRUE, results |-> <<>>]

Parsed(rs) == [panic |-> FALSE, results |-> rs]

\* the mutation of the CymruASN literal that reads as_name from the date field
CymruASNMutant(fields, as_number, cache_until) ==
    [as_number |-> as_number,
     country_code |-> fields[2],
     registry |-> fields[3],
     allocated |-> parse_date(fields[4]),
     as_name |-> fields[4],
     expires |-> cache_until]

\* the CymruASN literal of parse_cymru_asn (fields[0..4] of the code are fields[1..5])
CymruASN(fields, as_number, cache_until) ==
    [as_number |-> as_number,
     country_code |-> fields[2],
     registry |-> fields[3],
     allocated |-> parse_date(fields[4]),
     as_name |-> fields[5],
     expires |-> cache_until]

RECURSIVE AsnRows(_, _, _)
AsnRows(rows, cache_until, acc) ==
    IF rows = <<>> THEN Parsed(acc)
    ELSE LET fields == MapTrim(Split(Head(rows), "|"))
             n == ParseU32(fields[1])
         IN IF ~n.some THEN AsnRows(Tail(rows), cache_until, acc)
            ELSE IF Len(fields) < 5 THEN Panicked
            ELSE AsnRows(Tail(rows), cache_until,
                         Append(acc, CymruASN(fields, n.val, cache_until)))

parse_cymru_asn(rows, cache_until) == AsnRows(rows, cache_until, <<>>)

\* the CymruOrigin literal of parse_cymru_origin
CymruOrigin(fields, as_number, cache_until) ==
    [as_number |-> as_number,
     bgp_prefix |-> fields[2],
     country_code |-> fields[3],
     registry |-> fields[4],
     allocated |-> parse_date(fields[5]),
     expires |-> cache_until]

\* the mutation of the inner loop that stops at the first token that does not
\* parse (break where the code has continue)
RECURSIVE OriginTokensMutant(_, _, _, _)
OriginTokensMutant(fields, as_numbers, cache_until, acc) ==
    IF as_numbers = <<>> THEN Parsed(acc)
    ELSE LET n == ParseU32(Head(as_numbers))
         IN IF ~n.some THEN Parsed(acc)
            ELSE IF Len(fields) < 5 THEN Panicked
            ELSE OriginTokensMutant(fields, Tail(as_numbers), cache_until,
                                    Append(acc, CymruOrigin(fields, n.val, cache_until)))

\* the inner loop of parse_cymru_origin: for asn in as_numbers
RECURSIVE OriginTokens(_, _, _, _)
OriginTokens(fields, as_numbers, cache_until, acc) ==
    IF as_numbers = <<>> THEN Parsed(acc)
    ELSE LET n == ParseU32(Head(as_numbers))
         IN IF ~n.some THEN OriginTokens(fields, Tail(as_numbers), cache_until, acc)
            ELSE IF Len(fields) < 5 THEN Panicked
            ELSE OriginTokens(fields, Tail(as_numbers), cache_until,
                              Append(acc, CymruOrigin(fields, n.val, cache_until)))

RECURSIVE OriginRows(_, _, _)
OriginRows(rows, cache_until, acc) ==
    IF rows = <<>> THEN Parsed(acc)
    ELSE LET fields == MapTrim(Split(Head(rows), "|"))
             as_numbers == MapTrim(Split(fields[1], " "))
             r == OriginTokens(fields, as_numbers, cache_until, acc)
         IN IF r.panic THEN Panicked
            ELSE OriginRows(Tail(rows), cache_until, r.results)

parse_cymru_origin(rows, cache_until) == OriginRows(rows, cache_until, <<>>)

(***************************************************************************)
(* Values of the variables a specification does not use                    *)
(***************************************************************************)

NoAddr == [v |-> 0, octets |-> <<>>]

MergeIdle ==
    /\ op = "none" /\ arg = NoAddr /\ pc = "idle" /\ now = 0 /\ queries = <<>>
    /\ origins = <<>> /\ idx = 0 /\ results = <<>> /\ asn = <<>> /\ ret = None

ParseIdle == shape = "none" /\ gen = <<>> /\ records = <<>> /\ parsed = None

EncodeIdle == addr = NoAddr /\ name = None

(***************************************************************************)
(* SpecEncode: the query name cymru_origin builds for an address           *)
(***************************************************************************)

\* octets with one, two and three decimal digits, and both ends of the range
OctetSamples == {0, 9, 10, 99, 100, 255}

\* 2001:db8:123:4567:89ab:cdef:123:4567, the address of tests::test_ipv6_nibbles
TestV6 == <<32, 1, 13, 184, 1, 35, 69, 103, 137, 171, 205, 239, 1, 35, 69, 103>>

ByteSamples == {0, 15, 165, 240, 255}

\* how many octets of TestV6 an input may replace
MaxChanged == 1

RECURSIVE V6Variants(_)
V6Variants(k) ==
    IF k = 0 THEN {TestV6}
    ELSE LET prev == V6Variants(k - 1)
         IN prev \cup {[a EXCEPT ![p] = b] : a \in prev, p \in 1..16, b \in ByteSamples}

EncodeInputs ==
    {[v |-> 4, octets |-> <<w, x, y, z>>] : w \in OctetSamples, x \in OctetSamples,
                                            y \in OctetSamples, z \in OctetSamples}
        \cup {[v |-> 6, octets |-> o] : o \in V6Variants(MaxChanged)}

InitEncode ==
    /\ addr \in EncodeInputs
    /\ name = None
    /\ MergeIdle
    /\ ParseIdle

\* cymru_origin, match arm IpAddr::V4
EncodeV4 ==
    /\ addr.v = 4
    /\ ~name.some
    /\ name' = Some(OriginQuery(addr))
    /\ UNCHANGED <<addr, mergeVars, parseVars>>

\* cymru_origin, match arm IpAddr::V6
EncodeV6 ==
    /\ addr.v = 6
    /\ ~name.some
    /\ name' = Some(OriginQuery(addr))
    /\ UNCHANGED <<addr, mergeVars, parseVars>>

NextEncode == EncodeV4 \/ EncodeV6

SpecEncode == InitEncode /\ [][NextEncode]_vars

\* nibble j of an address, nibble 0 being the low nibble of the last octet and
\* nibble 31 the high nibble of the first
NibbleAt(octets, j) ==
    LET o == octets[16 - (j \div 2)]
    IN IF j % 2 = 0 THEN o % 16 ELSE o \div 16

Origin6Labels ==
    << <<"o", "r", "i", "g", "i", "n", "6">>, <<"a", "s", "n">>,
       <<"c", "y", "m", "r", "u">>, <<"c", "o", "m">>, <<>> >>

OriginLabels ==
    << <<"o", "r", "i", "g", "i", "n">>, <<"a", "s", "n">>,
       <<"c", "y", "m", "r", "u">>, <<"c", "o", "m">>, <<>> >>

\* C9: the name encoded for an IPv6 address is 32 single hexadecimal nibbles
\* joined by '.', nibble 0 (low nibble of the last octet) first and nibble 31
\* (high nibble of the first octet) last, followed by ".origin6.asn.cymru.com."
C9_Ipv6ReversedNibbles ==
    (addr.v = 6 /\ name.some) =>
        LET labels == Split(name.val, ".")
        IN /\ Len(labels) = 32 + 5
           /\ \A j \in 1..32 : labels[j] = <<HexDigits[NibbleAt(addr.octets, j - 1) + 1]>>
           /\ SubSeq(labels, 33, 37) = Origin6Labels
           /\ Len(name.val) = 63 + Len(Origin6Suffix)

\* the address and the expected text of tests::test_ipv6_nibbles
C9_Witness ==
    /\ addr = [v |-> 6, octets |-> TestV6]
    /\ name.some
    /\ name.val = <<"7", ".", "6", ".", "5", ".", "4", ".", "3", ".", "2", ".", "1", ".",
                    "0", ".", "f", ".", "e", ".", "d", ".", "c", ".", "b", ".", "a", ".",
                    "9", ".", "8", ".", "7", ".", "6", ".", "5", ".", "4", ".", "3", ".",
                    "2", ".", "1", ".", "0", ".", "8", ".", "b", ".", "d", ".", "0", ".",
                    "1", ".", "0", ".", "0", ".", "2">> \o Origin6Suffix

\* a decimal numeral as Display writes it: digits only, no leading zero
Canonical(s) == AllDigits(s) /\ (Len(s) = 1 \/ Head(s) # "0")

\* C10: the name built for the IPv4 address w.x.y.z is "z.y.x.w.origin.asn.cymru.com.":
\* its first four labels are the decimal numerals of z, y, x and w
C10_Ipv4ReversedOctets ==
    (addr.v = 4 /\ name.some) =>
        LET labels == Split(name.val, ".")
        IN /\ Len(labels) = 4 + 5
           /\ \A i \in 1..4 : /\ Canonical(labels[i])
                              /\ ParseU32(labels[i]) = Some(addr.octets[5 - i])
           /\ SubSeq(labels, 5, 9) = OriginLabels

\* 100.9.0.255 has been encoded as 255.0.9.100.origin.asn.cymru.com.
C10_Witness ==
    /\ addr = [v |-> 4, octets |-> <<100, 9, 0, 255>>]
    /\ name.some
    /\ name.val = <<"2", "5", "5", ".", "0", ".", "9", ".", "1", "0", "0">> \o OriginSuffix

(***************************************************************************)
(* SpecParse: parse_cymru_asn and parse_cymru_origin on batches of rows.   *)
(* A batch is one row written out from a description (tokens of the        *)
(* leading field, what separates them, how many pipe-separated fields the  *)
(* row has, its date text, the blanks around each field), with rows of the *)
(* source's tests before and after it.  Each token and date sample carries *)
(* the value Rust gives it, stated here and not computed by the model.     *)
(***************************************************************************)

Tok1 == [text |-> <<"1">>, val |-> Some(1)]

\* str::parse::<u32> accepts a leading '+'
Tok23 == [text |-> <<"+", "2", "3">>, val |-> Some(23)]

TokX == [text |-> <<"x">>, val |-> None]

\* u32::MAX + 1
TokBig == [text |-> <<"4", "2", "9", "4", "9", "6", "7", "2", "9", "6">>, val |-> None]

TokenSamples == {Tok1, Tok23, TokX, TokBig}

SepSamples == { <<" ">>, <<" ", " ">>, <<"\t">>, <<"\t", " ">> }

DateGood ==
    [text |-> <<"2", "0", "0", "2", "-", "0", "1", "-", "0", "4">>,
     val |-> Some([y |-> 2002, m |-> 1, d |-> 4])]

\* no 30th of February
DateBad == [text |-> <<"2", "0", "0", "2", "-", "0", "2", "-", "3", "0">>, val |-> None]

DateNA == [text |-> <<"N", "A">>, val |-> None]

DateSamples == {DateGood, DateBad, DateNA}

PadSamples == { <<>>, <<" ">> }

\* the most tokens in a leading field
MaxToks == 2

\* the most pipe-separated fields in a row
MaxFields == 6

RECURSIVE SeqsUpTo(_, _)
SeqsUpTo(S, n) ==
    IF n = 0 THEN {<<>>}
    ELSE LET prev == SeqsUpTo(S, n - 1)
         IN prev \cup {Append(q, x) : q \in {r \in prev : Len(r) = n - 1}, x \in S}

RowDescriptions ==
    {[toks |-> t, sep |-> sp, nf |-> n, date |-> dt, pad |-> pd, cache_until |-> 7] :
        t \in SeqsUpTo(TokenSamples, MaxToks), sp \in SepSamples, n \in 1..MaxFields,
        dt \in DateSamples, pd \in PadSamples}

BgpPrefix == <<"1", "0", ".", "0", ".", "0", ".", "0", "/", "8">>
CountryCode == <<"U", "S">>
Registry == <<"a", "r", "i", "n">>
AsName == <<"T", "C", " ", "-", " ", "S", "A", "U">>
Extra == <<"z">>

TokTexts(toks) == [i \in 1..Len(toks) |-> toks[i].text]

LeadText(d) == Join(TokTexts(d.toks), d.sep)

\* the fields of the described row, by shape, before padding
FieldTexts(sh, d) ==
    IF sh = "origin"
    THEN <<LeadText(d), BgpPrefix, CountryCode, Registry, d.date.text, Extra, Extra>>
    ELSE <<LeadText(d), CountryCode, Registry, d.date.text, AsName, Extra, Extra>>

RowText(sh, d) ==
    Join([i \in 1..d.nf |-> d.pad \o FieldTexts(sh, d)[i] \o d.pad], <<"|">>)

\* "23028 | US | arin | 2002-01-04 | TEAMCYMRU - SAUNET" (tests::test_parse_cymru_asn)
TestAsnRow ==
    <<"2", "3", "0", "2", "8", " ", "|", " ", "U", "S", " ", "|", " ",
      "a", "r", "i", "n", " ", "|", " ",
      "2", "0", "0", "2", "-", "0", "1", "-", "0", "4", " ", "|", " ",
      "T", "E", "A", "M", "C", "Y", "M", "R", "U", " ", "-", " ",
      "S", "A", "U", "N", "E", "T">>

\* "23028 | 216.90.108.0/24 | US | arin | 1998-09-25" (tests::test_parse_cymru_origin)
TestOriginRow ==
    <<"2", "3", "0", "2", "8", " ", "|", " ",
      "2", "1", "6", ".", "9", "0", ".", "1", "0", "8", ".", "0", "/", "2", "4",
      " ", "|", " ", "U", "S", " ", "|", " ", "a", "r", "i", "n", " ", "|", " ",
      "1", "9", "9", "8", "-", "0", "9", "-", "2", "5">>

TestRow(sh) == IF sh = "origin" THEN TestOriginRow ELSE TestAsnRow

\* the record the source's test expects of TestRow
TestRecord(sh, cu) ==
    IF sh = "origin"
    THEN [as_number |-> 23028,
          bgp_prefix |-> <<"2", "1", "6", ".", "9", "0", ".", "1", "0", "8", ".", "0",
                           "/", "2", "4">>,
          country_code |-> <<"U", "S">>, registry |-> <<"a", "r", "i", "n">>,
          allocated |-> Some([y |-> 1998, m |-> 9, d |-> 25]), expires |-> cu]
    ELSE [as_number |-> 23028,
          country_code |-> <<"U", "S">>, registry |-> <<"a", "r", "i", "n">>,
          allocated |-> Some([y |-> 2002, m |-> 1, d |-> 4]),
          as_name |-> <<"T", "E", "A", "M", "C", "Y", "M", "R", "U", " ", "-", " ",
                        "S", "A", "U", "N", "E", "T">>,
          expires |-> cu]

\* rows around the described one: none, a test row, or an empty row ("")
NeighbourKinds == {"none", "test", "empty"}

NeighbourRows(sh, k) ==
    IF k = "none" THEN <<>> ELSE IF k = "test" THEN <<TestRow(sh)>> ELSE << <<>> >>

Batch(sh, g) ==
    NeighbourRows(sh, g.before) \o <<RowText(sh, g.d)>> \o NeighbourRows(sh, g.after)

InitParse ==
    /\ shape \in {"asn", "origin"}
    /\ gen \in {[before |-> b, d |-> d, after |-> a] :
                   b \in {"none", "test"}, d \in RowDescriptions, a \in NeighbourKinds}
    \* the separator matters only between two tokens
    /\ Len(gen.d.toks) < 2 => gen.d.sep = <<" ">>
    /\ records = Batch(shape, gen)
    /\ parsed = None
    /\ MergeIdle
    /\ EncodeIdle

ParseAsn ==
    /\ shape = "asn"
    /\ ~parsed.some
    /\ parsed' = Some(parse_cymru_asn(records, gen.d.cache_until))
    /\ UNCHANGED <<shape, gen, records, mergeVars, encodeVars>>

ParseOrigin ==
    /\ shape = "origin"
    /\ ~parsed.some
    /\ parsed' = Some(parse_cymru_origin(records, gen.d.cache_until))
    /\ UNCHANGED <<shape, gen, records, mergeVars, encodeVars>>

NextParse == ParseAsn \/ ParseOrigin

SpecParse == InitParse /\ [][NextParse]_vars

\* what the rows around the described one are to contribute
NeighbourRecords(sh, k, cu) == IF k = "test" THEN <<TestRecord(sh, cu)>> ELSE <<>>

Around(sh, g, mid) ==
    NeighbourRecords(sh, g.before, g.d.cache_until) \o mid
        \o NeighbourRecords(sh, g.after, g.d.cache_until)

\* one origin record per token that is an AS number, in input order
RECURSIVE OnePerValidToken(_, _)
OnePerValidToken(toks, d) ==
    IF toks = <<>> THEN <<>>
    ELSE (IF Head(toks).val.some
          THEN <<[as_number |-> Head(toks).val.val, bgp_prefix |-> BgpPrefix,
                  country_code |-> CountryCode, registry |-> Registry,
                  allocated |-> d.date.val, expires |-> d.cache_until]>>
          ELSE <<>>) \o OnePerValidToken(Tail(toks), d)

\* a row the parser is to skip: too few fields for its shape, or a leading field
\* that holds no AS number (the empty row is both)
Malformed(sh, d) ==
    \/ d.nf < 5
    \/ IF sh = "asn"
       THEN ~(Len(d.toks) = 1 /\ d.toks[1].val.some)
       ELSE \A i \in 1..Len(d.toks) : ~d.toks[i].val.some

\* C6: parsing a batch always completes without aborting, a malformed row
\* contributes no record and the well-formed rows around it still contribute theirs
C6_ParsingNeverAborts ==
    parsed.some =>
        /\ ~parsed.val.panic
        /\ Malformed(shape, gen.d) => parsed.val.results = Around(shape, gen, <<>>)

HasSpace(sep) == \E i \in 1..Len(sep) : sep[i] = " "

\* C7 as stated: a five-field origin row whose leading field holds k tokens
\* separated by whitespace of any kind yields one record per token that is an AS
\* number, in input order, each with the row's other four fields
C7_OnePerWhitespaceToken ==
    (shape = "origin" /\ parsed.some /\ gen.d.nf = 5 /\ Len(gen.d.toks) >= 1) =>
        /\ ~parsed.val.panic
        /\ parsed.val.results = Around(shape, gen, OnePerValidToken(gen.d.toks, gen.d))

\* C7 (amended): ... whose leading field holds k tokens separated by whitespace
\* that includes at least one space character (U+0020) yields one record per
\* token that is an AS number, in input order, each with the row's bgp_prefix,
\* country_code, registry and allocated; the other tokens are skipped
C7_OnePerSpaceSeparatedToken ==
    (shape = "origin" /\ parsed.some /\ gen.d.nf = 5 /\ Len(gen.d.toks) >= 1
        /\ HasSpace(gen.d.sep)) =>
        /\ ~parsed.val.panic
        /\ parsed.val.results = Around(shape, gen, OnePerValidToken(gen.d.toks, gen.d))

\* "x +23" has been parsed alone: the first token was skipped, the second kept
C7_Witness ==
    /\ shape = "origin" /\ parsed.some /\ gen.d.nf = 5
    /\ gen.before = "none" /\ gen.after = "none"
    /\ Len(gen.d.toks) = 2 /\ HasSpace(gen.d.sep)
    /\ ~gen.d.toks[1].val.some /\ gen.d.toks[2].val = Some(23)
    /\ Len(parsed.val.results) = 1
    /\ parsed.val.results[1].as_number = 23

\* C8: a five-field AS-info row whose leading field is an AS number yields
\* exactly one record, with as_number, country_code, registry and as_name from
\* the trimmed fields 1, 2, 3 and 5, and allocated the date of field 4 when that
\* is a date and absent otherwise
C8_AsnRowOneRecord ==
    (shape = "asn" /\ parsed.some /\ gen.d.nf = 5 /\ Len(gen.d.toks) = 1
        /\ gen.d.toks[1].val.some) =>
        /\ ~parsed.val.panic
        /\ parsed.val.results =
              Around(shape, gen,
                     <<[as_number |-> gen.d.toks[1].val.val,
                        country_code |-> CountryCode, registry |-> Registry,
                        allocated |-> gen.d.date.val, as_name |-> AsName,
                        expires |-> gen.d.cache_until]>>)

\* a padded five-field AS-info row with an unparsable date has been parsed: one
\* record, its allocated absent
C8_Witness ==
    /\ shape = "asn" /\ parsed.some /\ gen.d.nf = 5
    /\ gen.before = "none" /\ gen.after = "none"
    /\ gen.d.pad = <<" ">>
    /\ Len(gen.d.toks) = 1 /\ gen.d.toks[1].val.some
    /\ ~gen.d.date.val.some
    /\ Len(parsed.val.results) = 1
    /\ ~parsed.val.results[1].allocated.some
    /\ parsed.val.results[1].as_name = AsName

(***************************************************************************)
(* Spec: one call of cymru_ip2asn or cymru_asn.  The call blocks in        *)
(* resolve_txt; the DNS-TXT collaborator then fails or answers with rows   *)
(* and a TTL, and the call runs on to its next query or to its end.        *)
(***************************************************************************)

Ok(v) == [kind |-> "Ok", val |-> v]

Err(e) == [kind |-> "Err", err |-> e]

Panic == [kind |-> "Panic"]

\* the mutation of cymru_asn that drops the results.is_empty() check
cymru_asn_mutant(rows, ttl, t) ==
    LET p == parse_cymru_asn(rows, t + ttl)
    IN IF p.panic THEN Panic ELSE Ok(p.results)

\* cymru_asn once resolve_txt has returned Ok((ttl, rows)) at time t
cymru_asn(rows, ttl, t) ==
    LET p == parse_cymru_asn(rows, t + ttl)
    IN IF p.panic THEN Panic
       ELSE IF p.results = <<>> THEN Err("NoResultsFound")
       ELSE Ok(p.results)

\* cymru_origin once resolve_txt has returned Ok((ttl, rows)) at time t
cymru_origin(rows, ttl, t) ==
    LET p == parse_cymru_origin(rows, t + ttl)
    IN IF p.panic THEN Panic
       ELSE IF p.results = <<>> THEN Err("NoResultsFound")
       ELSE Ok(p.results)

Min(a, b) == IF a <= b THEN a ELSE b

\* the mutation of the CymruIP2ASN literal that takes the origin's expiry alone
CymruIP2ASNMutant(a, origin, asnv) ==
    [ip_addr |-> a,
     bgp_prefix |-> origin.bgp_prefix,
     as_number |-> origin.as_number,
     as_name |-> asnv[1].as_name,
     country_code |-> origin.country_code,
     registry |-> origin.registry,
     allocated |-> IF origin.allocated.some
                   THEN Some(DateToString(origin.allocated.val)) ELSE None,
     expires |-> origin.expires]

\* the CymruIP2ASN literal of cymru_ip2asn (asn[0] of the code is asnv[1])
CymruIP2ASN(a, origin, asnv) ==
    [ip_addr |-> a,
     bgp_prefix |-> origin.bgp_prefix,
     as_number |-> origin.as_number,
     as_name |-> asnv[1].as_name,
     country_code |-> origin.country_code,
     registry |-> origin.registry,
     allocated |-> IF origin.allocated.some
                   THEN Some(DateToString(origin.allocated.val)) ELSE None,
     expires |-> Min(origin.expires, asnv[1].expires)]

\* the mutation of the skip test that never skips
NextNewNoSkip(org, i, res) == i

\* the mutation of the skip test that looks at the last result only
RECURSIVE NextNewLastOnly(_, _, _)
NextNewLastOnly(org, i, res) ==
    IF i > Len(org) THEN i
    ELSE IF res # <<>> /\ res[Len(res)].as_number = org[i].as_number
         THEN NextNewLastOnly(org, i + 1, res)
    ELSE i

\* 'origins: the first origin at or after i whose as_number no result carries
\* (Len(org) + 1 when the loop runs out)
RECURSIVE NextNew(_, _, _)
NextNew(org, i, res) ==
    IF i > Len(org) THEN i
    ELSE IF \E k \in 1..Len(res) : res[k].as_number = org[i].as_number
         THEN NextNew(org, i + 1, res)
    ELSE i

\* the loop of cymru_ip2asn from origin i on, up to its next cymru_asn call or
\* to the return after the loop
Loop(org, i, res) ==
    LET j == NextNew(org, i, res)
    IN IF j <= Len(org)
       THEN [pc |-> "asn_wait", idx |-> j, results |-> res, ret |-> None,
             query |-> Some(AsnQuery(org[j].as_number))]
       ELSE [pc |-> "done", idx |-> j, results |-> res,
             ret |-> Some(IF res = <<>> THEN Err("NoResultsFound") ELSE Ok(res)),
             query |-> None]

Stop(where, i, res, r) ==
    [pc |-> where, idx |-> i, results |-> res, ret |-> r, query |-> None]

\* the mutation of the `?` after cymru_asn that goes on to the next origin
AfterAsnSkipFailed(org, i, res, r) ==
    IF r.kind = "Panic" THEN Stop("panic_parse", i, res, None)
    ELSE IF r.kind = "Err" THEN Loop(org, i + 1, res)
    ELSE Stop("merge", i, res, None)

\* cymru_asn(origin.as_number)? of the loop body, cymru_asn having come back as r:
\* `?` returns its error, else the Vec is bound to asn
AfterAsn(org, i, res, r) ==
    IF r.kind = "Panic" THEN Stop("panic_parse", i, res, None)
    ELSE IF r.kind = "Err" THEN Stop("done", i, res, Some(r))
    ELSE Stop("merge", i, res, None)

\* the rest of the loop body: asn[0] panics on an empty Vec, else the merged
\* result is pushed and the loop goes on
MergeStep(a, org, i, res, asnv) ==
    IF asnv = <<>> THEN Stop("panic_index", i, res, None)
    ELSE Loop(org, i + 1, Append(res, CymruIP2ASN(a, org[i], asnv)))

\* cymru_ip2asn once cymru_origin(ip) has come back as r
AfterOrigin(r) ==
    IF r.kind = "Panic" THEN Stop("panic_parse", 0, <<>>, None)
    ELSE IF r.kind = "Err" THEN Stop("done", 0, <<>>, Some(r))
    ELSE Loop(r.val, 1, <<>>)

Row(sh, toks, nf, date, pad) ==
    RowText(sh, [toks |-> toks, sep |-> <<" ">>, nf |-> nf, date |-> date, pad |-> pad])

\* rows the collaborator may answer an origin query with
OriginRowSamples ==
    { Row("origin", <<Tok1, Tok23>>, 5, DateGood, <<" ">>),   \* two origins, 1 and 23
      Row("origin", <<Tok1>>, 5, DateNA, <<>>),               \* origin 1 again, no date
      Row("origin", <<TokX>>, 5, DateGood, <<" ">>),          \* no AS number
      Row("origin", <<Tok1>>, 2, DateGood, <<" ">>) }         \* two fields only

\* rows the collaborator may answer an AS-info query with
AsnRowSamples ==
    { TestAsnRow,
      Row("asn", <<Tok1>>, 5, DateNA, <<" ">>),
      Row("asn", <<Tok1>>, 2, DateGood, <<" ">>) }            \* two fields only

\* the most rows in one answer
MaxRows == 2

\* the longest TTL of an answer
MaxTtl == 1

\* how far the clock runs
MaxNow == 1

IpSamples == { [v |-> 4, octets |-> <<216, 90, 108, 1>>], [v |-> 6, octets |-> TestV6] }

AsnArgSamples == {1, 23028}

\* what cymru_origin and cymru_asn return for each answer, TTL and time of the
\* model, computed once
OriginReturns ==
    [rows \in SeqsUpTo(OriginRowSamples, MaxRows), ttl \in 0..MaxTtl, t \in 0..MaxNow |->
        cymru_origin(rows, ttl, t)]

AsnReturns ==
    [rows \in SeqsUpTo(AsnRowSamples, MaxRows), ttl \in 0..MaxTtl, t \in 0..MaxNow |->
        cymru_asn(rows, ttl, t)]

Init ==
    /\ op \in {"cymru_ip2asn", "cymru_asn"}
    /\ arg \in (IF op = "cymru_ip2asn" THEN IpSamples ELSE AsnArgSamples)
    /\ pc = "start"
    /\ now = 0
    /\ queries = <<>>
    /\ origins = <<>>
    /\ idx = 0
    /\ results = <<>>
    /\ asn = <<>>
    /\ ret = None
    /\ ParseIdle
    /\ EncodeIdle

Query(n) == [name |-> n, outcome |-> "pending", got |-> 0]

\* the last query of the log closed with its outcome and the records parsed
Closed(outcome, got) ==
    [queries EXCEPT ![Len(queries)] = [@ EXCEPT !.outcome = outcome, !.got = got]]

OutcomeOf(r) == IF r.kind = "Ok" THEN "ok" ELSE IF r.kind = "Err" THEN r.err ELSE "panic"

GotOf(r) == IF r.kind = "Ok" THEN Len(r.val) ELSE 0

\* cymru_ip2asn(ip) up to the resolve_txt of cymru_origin
CallIp2asn ==
    /\ pc = "start"
    /\ op = "cymru_ip2asn"
    /\ queries' = Append(queries, Query(OriginQuery(arg)))
    /\ pc' = "origin_wait"
    /\ UNCHANGED <<op, arg, now, origins, idx, results, asn, ret, parseVars, encodeVars>>

\* cymru_asn(asn) up to its resolve_txt
CallAsn ==
    /\ pc = "start"
    /\ op = "cymru_asn"
    /\ queries' = Append(queries, Query(AsnQuery(arg)))
    /\ pc' = "asn_wait"
    /\ UNCHANGED <<op, arg, now, origins, idx, results, asn, ret, parseVars, encodeVars>>

\* SystemTime::now() moves on while a query is out
Tick ==
    /\ pc \in {"origin_wait", "asn_wait"}
    /\ now < MaxNow
    /\ now' = now + 1
    /\ UNCHANGED <<op, arg, pc, queries, origins, idx, results, asn, ret,
                   parseVars, encodeVars>>

\* resolve_txt returns Err (Resolver::from_system_conf or txt_lookup failed): every
\* `?` on the way up returns it
ResolveFails ==
    /\ pc \in {"origin_wait", "asn_wait"}
    /\ \E e \in {"Io", "Resolver"} :
          /\ ret' = Some(Err(e))
          /\ queries' = Closed(e, 0)
    /\ pc' = "done"
    /\ UNCHANGED <<op, arg, now, origins, idx, results, asn, parseVars, encodeVars>>

\* resolve_txt of cymru_origin returns Ok: cymru_origin parses, cymru_ip2asn runs on
OriginAnswers ==
    /\ pc = "origin_wait"
    /\ \E rows \in SeqsUpTo(OriginRowSamples, MaxRows), ttl \in 0..MaxTtl :
          LET r == OriginReturns[rows, ttl, now]
              st == AfterOrigin(r)
          IN /\ origins' = IF r.kind = "Ok" THEN r.val ELSE <<>>
             /\ pc' = st.pc
             /\ idx' = st.idx
             /\ results' = st.results
             /\ ret' = st.ret
             /\ queries' = IF st.query.some
                           THEN Append(Closed(OutcomeOf(r), GotOf(r)), Query(st.query.val))
                           ELSE Closed(OutcomeOf(r), GotOf(r))
    /\ UNCHANGED <<op, arg, now, asn, parseVars, encodeVars>>

\* resolve_txt of a cymru_asn called by cymru_ip2asn returns Ok
AsnAnswersIp2asn ==
    /\ pc = "asn_wait"
    /\ op = "cymru_ip2asn"
    /\ \E rows \in SeqsUpTo(AsnRowSamples, MaxRows), ttl \in 0..MaxTtl :
          LET r == AsnReturns[rows, ttl, now]
              st == AfterAsn(origins, idx, results, r)
          IN /\ pc' = st.pc
             /\ idx' = st.idx
             /\ results' = st.results
             /\ ret' = st.ret
             /\ asn' = IF r.kind = "Ok" THEN r.val ELSE <<>>
             /\ queries' = IF st.query.some
                           THEN Append(Closed(OutcomeOf(r), GotOf(r)), Query(st.query.val))
                           ELSE Closed(OutcomeOf(r), GotOf(r))
    /\ UNCHANGED <<op, arg, now, origins, parseVars, encodeVars>>

\* lines 105-116 and on: build and push the merged result, drop asn, loop
Merge ==
    /\ pc = "merge"
    /\ LET st == MergeStep(arg, origins, idx, results, asn)
       IN /\ pc' = st.pc
          /\ idx' = st.idx
          /\ results' = st.results
          /\ ret' = st.ret
          /\ queries' = IF st.query.some THEN Append(queries, Query(st.query.val))
                        ELSE queries
    /\ asn' = <<>>
    /\ UNCHANGED <<op, arg, now, origins, parseVars, encodeVars>>

\* resolve_txt of a cymru_asn called on its own returns Ok
AsnAnswersAlone ==
    /\ pc = "asn_wait"
    /\ op = "cymru_asn"
    /\ \E rows \in SeqsUpTo(AsnRowSamples, MaxRows), ttl \in 0..MaxTtl :
          LET r == AsnReturns[rows, ttl, now]
          IN /\ pc' = IF r.kind = "Panic" THEN "panic_parse" ELSE "done"
             /\ ret' = IF r.kind = "Panic" THEN None ELSE Some(r)
             /\ queries' = Closed(OutcomeOf(r), GotOf(r))
    /\ UNCHANGED <<op, arg, now, origins, idx, results, asn, parseVars, encodeVars>>

Next ==
    \/ CallIp2asn
    \/ CallAsn
    \/ Tick
    \/ ResolveFails
    \/ OriginAnswers
    \/ AsnAnswersIp2asn
    \/ Merge
    \/ AsnAnswersAlone

Spec == Init /\ [][Next]_vars

Failures == {"Io", "Resolver", "NoResultsFound"}

\* the origin records that are the first to carry their as_number, in order
RECURSIVE FirstSeenFrom(_, _)
FirstSeenFrom(org, i) ==
    IF i > Len(org) THEN <<>>
    ELSE (IF \E j \in 1..(i - 1) : org[j].as_number = org[i].as_number
          THEN <<>> ELSE <<org[i]>>) \o FirstSeenFrom(org, i + 1)

AllAnswered == \A i \in 1..Len(queries) : queries[i].outcome = "ok"

Returned(kind) == pc = "done" /\ ret.some /\ ret.val.kind = kind

\* C1: when the origin query and every AS-info sub-query succeed, cymru_ip2asn
\* returns one merged result per distinct as_number of the origin records, in
\* order of first appearance, each with the bgp_prefix, country_code, registry
\* and allocated of the first origin record that carries the number
C1_OnePerDistinctAsNumber ==
    (op = "cymru_ip2asn" /\ pc = "done") =>
        /\ AllAnswered <=> Returned("Ok")
        /\ Returned("Ok") =>
              LET first == FirstSeenFrom(origins, 1)
                  out == ret.val.val
              IN /\ Len(out) = Len(first)
                 /\ \A k \in 1..Len(out) :
                       /\ out[k].ip_addr = arg
                       /\ out[k].as_number = first[k].as_number
                       /\ out[k].bgp_prefix = first[k].bgp_prefix
                       /\ out[k].country_code = first[k].country_code
                       /\ out[k].registry = first[k].registry
                       /\ out[k].allocated.some = first[k].allocated.some
                       /\ out[k].allocated.some =>
                             parse_date(out[k].allocated.val) = first[k].allocated

\* origins 1, 23, 1 came back, the second 1 without a date: two results, the
\* first with the date of the first record
C1_Witness ==
    /\ op = "cymru_ip2asn" /\ Returned("Ok")
    /\ Len(origins) = 3
    /\ origins[1].as_number = origins[3].as_number
    /\ origins[1].allocated.some /\ ~origins[3].allocated.some
    /\ Len(ret.val.val) = 2
    /\ ret.val.val[1].allocated = Some(DateGood.text)

\* C2: once an AS-info sub-query of a merged lookup has failed (Io, Resolver or
\* NoResultsFound), cymru_ip2asn has returned that failure, whatever results it
\* had built
C2_FailFast ==
    op = "cymru_ip2asn" =>
        \A i \in 2..Len(queries) :
            queries[i].outcome \in Failures =>
                /\ pc = "done"
                /\ ret = Some(Err(queries[i].outcome))

\* the second AS-info query failed after a first merged result had been built
C2_Witness ==
    /\ op = "cymru_ip2asn" /\ Returned("Err")
    /\ Len(queries) = 3
    /\ queries[3].outcome \in Failures
    /\ Len(results) = 1

AsNumbersOf(rs) == {rs[k].as_number : k \in 1..Len(rs)}

\* C3: a merged lookup issues the origin query first and then AS-info queries one
\* after another (a query is issued only when every earlier one has answered),
\* each for an AS number of the origin records that no result carries yet, at
\* most one per distinct number and, on success, exactly one per distinct number
\* in first-seen order; no name is queried twice
C3_QueriesSequentialOncePerAs ==
    op = "cymru_ip2asn" =>
        /\ pc # "start" => (Len(queries) >= 1 /\ queries[1].name = OriginQuery(arg))
        /\ \A i \in 2..Len(queries) :
              \E n \in AsNumbersOf(origins) : queries[i].name = AsnQuery(n)
        /\ \A i \in 1..(Len(queries) - 1) : queries[i].outcome = "ok"
        /\ \A i, j \in 1..Len(queries) : i # j => queries[i].name # queries[j].name
        /\ Len(queries) <= 1 + Cardinality(AsNumbersOf(origins))
        /\ pc = "asn_wait" =>
              /\ origins[idx].as_number \notin AsNumbersOf(results)
              /\ queries[Len(queries)].name = AsnQuery(origins[idx].as_number)
        /\ Returned("Ok") =>
              LET first == FirstSeenFrom(origins, 1)
              IN /\ Len(queries) = 1 + Len(first)
                 /\ \A k \in 1..Len(first) :
                       queries[k + 1].name = AsnQuery(first[k].as_number)

\* origins 1, 23, 1 were merged with three queries: the origin's, AS1's and AS23's
C3_Witness ==
    /\ op = "cymru_ip2asn" /\ Returned("Ok")
    /\ Len(origins) = 3
    /\ origins[1].as_number = origins[3].as_number
    /\ Len(queries) = 3
    /\ queries[2].name = <<"A", "S", "1">> \o AsnSuffix
    /\ queries[3].name = <<"A", "S", "2", "3">> \o AsnSuffix

\* C4: each merged result is pushed with expires = min(origin.expires,
\* asn[0].expires), origin being the record that contributed it and asn[0] the
\* AS-info record whose as_name it carries, so it is no later than either; a
\* result once pushed is not changed
C4_ExpiresIsMin ==
    [][ /\ (pc = "merge" /\ pc' # "panic_index") =>
              /\ Len(results') = Len(results) + 1
              /\ SubSeq(results', 1, Len(results)) = results
              /\ LET m == results'[Len(results')]
                     origin == origins[idx]
                 IN /\ m.as_number = origin.as_number
                    /\ m.as_name = asn[1].as_name
                    /\ m.expires = Min(origin.expires, asn[1].expires)
                    /\ m.expires <= origin.expires
                    /\ m.expires <= asn[1].expires
        /\ pc # "merge" => results' = results ]_vars

\* two results were merged, the first expiring with its AS-info record (before
\* the origin record), the second with the origin record
C4_Witness ==
    /\ op = "cymru_ip2asn" /\ Returned("Ok")
    /\ Len(results) = 2
    /\ results[1].expires < origins[1].expires
    /\ results[2].expires = origins[1].expires

\* C5: a call that returns Ok returns a list that is not empty: an answer whose
\* rows parse to no record is returned as NoResultsFound, by cymru_asn and by
\* cymru_origin, so asn[0] in cymru_ip2asn is always defined
C5_OkIsNeverEmpty ==
    /\ pc = "done" => ret.some
    /\ Returned("Ok") => ret.val.val # <<>>
    /\ \A i \in 1..Len(queries) : queries[i].outcome = "ok" => queries[i].got >= 1
    /\ (op = "cymru_ip2asn" /\ Len(queries) >= 1 /\ queries[1].outcome = "ok")
          => origins # <<>>
    /\ pc = "merge" => asn # <<>>
    /\ pc # "panic_index"

\* cymru_asn got an answer without a usable row and returned NoResultsFound
C5_Witness ==
    /\ op = "cymru_asn"
    /\ pc = "done"
    /\ ret = Some(Err("NoResultsFound"))
    /\ queries[1].outcome = "NoResultsFound"

====
